---- MODULE Spec2Model ----
(***************************************************************************)
(* Model of kristofmulier/image_dater:                                     *)
(*   exif_parser.py  - to_isoformat_with_microseconds, parse_exif_data,    *)
(*                     get_photo_taken_date                                *)
(*   image_dater.py  - parse_and_rename_images, date_to_str                *)
(* Strings are TLA+ strings; a character is a string of length one.        *)
(***************************************************************************)
EXTENDS Integers, Sequences, FiniteSets, TLC

VARIABLES
    \* ---- to_isoformat_with_microseconds applied to one input (SpecNorm)
    n_pc,               \* "input" | "returned" | "raised"
    n_parts,            \* how the input was put together (base, frac, tz, tail)
    n_in,               \* the argument date_str
    n_out,              \* the returned string ("" until returned)
    \* ---- parse_exif_data / get_photo_taken_date on one exiftool dump (SpecExif)
    e_pc,               \* "scan" | "parsed" | "resolved" | "raised"
    e_lines,            \* the lines output_utf was put together from
    output_utf,         \* exiftool's decoded output
    e_pos,              \* where p1.finditer resumes scanning (1-based)
    e_seen,             \* the p1 matches iterated so far, in order
    date_dict,          \* label -> datetime (a function on the inserted labels)
    dict_keys,          \* date_dict's keys in insertion order
    e_result,           \* get_photo_taken_date's return value
    \* ---- parse_and_rename_images over one tree (Spec)
    pc,                 \* "idle" | "parse" | "rename" | "done" (returned) |
                        \* "aborted" (left by os.rename's OSError) |
                        \* "assertion" (left by the AssertionError of line 140)
    disk,               \* path -> what is there (a file with its metadata, or a directory)
    dry_run,            \* the dry_run argument of the running batch
    walk,               \* os.walk's files not yet visited by the first loop, in order
    filepath_date_dict, \* the (filepath, date_str) pairs, in insertion order
    file_cntr,          \* entries of filepath_date_dict handled by the second loop
    log,                \* the GOOD / RENAME lines of the running batch, each with the
                        \* paths that were on disk
    failed,             \* the paths printed as 'Cannot parse file' in this batch
    disk0,              \* the disk when the running batch started
    shadow,             \* the same plan executed with dry_run = False, in step: its disk
                        \* and its (src, dst) pairs
    prev_real_done,     \* the batch before this one was a completed non-dry run
    \* ---- move_images over one file system (SpecMove)
    m_pc,               \* "idle" | "move" | "done" (returned) | "assertion" (left by the
                        \* AssertionError of line 100) | "error" (left by datetime's
                        \* ValueError)
    m_disk,             \* path -> what is there (a file or a directory)
    m_dry,              \* the dry_run argument of the running call
    filepath_list,      \* the files the second loop has still to handle, in order
    m_log               \* the GOOD / MOVE lines of the running call

normVars  == <<n_pc, n_parts, n_in, n_out>>
exifVars  == <<e_pc, e_lines, output_utf, e_pos, e_seen, date_dict, dict_keys, e_result>>
batchVars == <<pc, disk, dry_run, walk, filepath_date_dict, file_cntr, log, failed, disk0,
               shadow, prev_real_done>>
moveVars  == <<m_pc, m_disk, m_dry, filepath_list, m_log>>
vars      == <<normVars, exifVars, batchVars, moveVars>>

\* Python's None, where a datetime may stand
None == [none |-> TRUE]

(***************************************************************************)
(* Strings and the regular expressions p1, p2                              *)
(***************************************************************************)
Ch(s, i) == SubSeq(s, i, i)

Digits == {"0", "1", "2", "3", "4", "5", "6", "7", "8", "9"}

IsDigit(c) == c \in Digits

\* \s and str.strip(): the whitespace characters
IsSpace(c) == c \in {" ", "\t", "\n", "\r", "\f"}

\* \d{n} at position i
DigitsAt(s, i, n) ==
    /\ i >= 1
    /\ i + n - 1 <= Len(s)
    /\ \A k \in 0..(n - 1) : IsDigit(Ch(s, i + k))

\* a literal at position i
LitAt(s, i, lit) ==
    /\ i >= 1
    /\ i + Len(lit) - 1 <= Len(s)
    /\ SubSeq(s, i, i + Len(lit) - 1) = lit

\* the end of the longest run of digits starting at i (i - 1 when there is none)
RECURSIVE DigitRunEnd(_, _)
DigitRunEnd(s, i) ==
    IF i <= Len(s) /\ IsDigit(Ch(s, i)) THEN DigitRunEnd(s, i + 1) ELSE i - 1

\* the end of the longest run of whitespace starting at i (i - 1 when there is none)
RECURSIVE SpaceRunEnd(_, _)
SpaceRunEnd(s, i) ==
    IF i <= Len(s) /\ IsSpace(Ch(s, i)) THEN SpaceRunEnd(s, i + 1) ELSE i - 1

\* str.strip()
RECURSIVE LStrip(_)
LStrip(s) == IF Len(s) > 0 /\ IsSpace(Ch(s, 1)) THEN LStrip(SubSeq(s, 2, Len(s))) ELSE s

RECURSIVE RStrip(_)
RStrip(s) ==
    IF Len(s) > 0 /\ IsSpace(Ch(s, Len(s))) THEN RStrip(SubSeq(s, 1, Len(s) - 1)) ELSE s

Strip(s) == RStrip(LStrip(s))

\* \d{4}<sep>\d{2}<sep>\d{2} at position i
DateAt(s, i, sep) ==
    /\ DigitsAt(s, i, 4)
    /\ LitAt(s, i + 4, sep)
    /\ DigitsAt(s, i + 5, 2)
    /\ LitAt(s, i + 7, sep)
    /\ DigitsAt(s, i + 8, 2)

\* \d{4}<sep>\d{2}<sep>\d{2} \d{2}:\d{2}:\d{2} at position i (19 characters)
BaseAt(s, i, sep) ==
    /\ DateAt(s, i, sep)
    /\ LitAt(s, i + 10, " ")
    /\ DigitsAt(s, i + 11, 2)
    /\ LitAt(s, i + 13, ":")
    /\ DigitsAt(s, i + 14, 2)
    /\ LitAt(s, i + 16, ":")
    /\ DigitsAt(s, i + 17, 2)

BaseLen == 19

\* (\.\d+)? at position i: the position after it (i when the group does not match)
FracEnd(s, i) ==
    IF LitAt(s, i, ".") /\ DigitsAt(s, i + 1, 1) THEN DigitRunEnd(s, i + 1) + 1 ELSE i

\* [+-]\d{2}:\d{2} at position i
OffsetAt(s, i) ==
    /\ (LitAt(s, i, "+") \/ LitAt(s, i, "-"))
    /\ DigitsAt(s, i + 1, 2)
    /\ LitAt(s, i + 3, ":")
    /\ DigitsAt(s, i + 4, 2)

OffsetLen == 6

\* re.sub(r'^(\d{4}):(\d{2}):(\d{2})', r'\1-\2-\3', s)
ReSubDate(s) ==
    IF DateAt(s, 1, ":")
    THEN SubSeq(s, 1, 4) \o "-" \o SubSeq(s, 6, 7) \o "-" \o SubSeq(s, 9, Len(s))
    ELSE s

\* p2.match(s): the three groups; a group that did not take part is "" (falsy, as None is)
P2Match(s) ==
    IF ~BaseAt(s, 1, "-")
    THEN [matched |-> FALSE, base |-> "", frac |-> "", tz |-> ""]
    ELSE LET f == FracEnd(s, BaseLen + 1)
             t == IF OffsetAt(s, f) THEN f + OffsetLen
                  ELSE IF LitAt(s, f, "Z") THEN f + 1
                  ELSE f
         IN  [matched |-> TRUE,
              base    |-> SubSeq(s, 1, BaseLen),
              frac    |-> SubSeq(s, BaseLen + 1, f - 1),
              tz      |-> SubSeq(s, f, t - 1)]

MicroDigits == 6

\* the padding without the cut to 6 digits
PadMicro_NoCut(frac) == SubSeq(frac, 2, Len(frac)) \o "000000"

\* (fractional_seconds[1:] + '000000')[:6]
PadMicro(frac) == SubSeq(SubSeq(frac, 2, Len(frac)) \o "000000", 1, MicroDigits)

\* to_isoformat_with_microseconds(date_str): the ValueError or the returned string
NormalizeFraction(frac) == IF frac # "" THEN "." \o PadMicro(frac) ELSE ".000000"

NormalizeTimezone(tz) == IF tz = "Z" THEN "+00:00" ELSE IF tz = "" THEN "+00:00" ELSE tz

to_isoformat_with_microseconds(date_str) ==
    LET m == P2Match(ReSubDate(Strip(date_str)))
    IN  IF ~m.matched
        THEN [raised |-> TRUE, value |-> ""]
        ELSE [raised |-> FALSE,
              value  |-> m.base \o NormalizeFraction(m.frac) \o NormalizeTimezone(m.tz)]

(***************************************************************************)
(* datetime: fromisoformat on the normalized string, strftime              *)
(***************************************************************************)
DigitVal(c) == CHOOSE n \in 0..9 : Ch("0123456789", n + 1) = c

\* int() of a string of digits
RECURSIVE StrToNat(_)
StrToNat(s) ==
    IF Len(s) = 0 THEN 0
    ELSE StrToNat(SubSeq(s, 1, Len(s) - 1)) * 10 + DigitVal(Ch(s, Len(s)))

IsLeap(y) == (y % 4 = 0) /\ ((y % 100 # 0) \/ (y % 400 = 0))

\* a calendar in which every month has 31 days
DaysInMonth_AllLong(y, m) == 31

DaysInMonth(y, m) ==
    IF m = 2 THEN (IF IsLeap(y) THEN 29 ELSE 28)
    ELSE IF m \in {4, 6, 9, 11} THEN 30 ELSE 31

\* 'YYYY-MM-DD HH:MM:SS.ffffff+HH:MM', the only shape the caller passes
IsoShape(s) ==
    /\ Len(s) = BaseLen + 1 + MicroDigits + OffsetLen
    /\ BaseAt(s, 1, "-")
    /\ LitAt(s, BaseLen + 1, ".")
    /\ DigitsAt(s, BaseLen + 2, MicroDigits)
    /\ OffsetAt(s, BaseLen + 2 + MicroDigits)

\* datetime.datetime.fromisoformat(s): the ValueError or the datetime's fields
\* (utcoffset in minutes)
fromisoformat(s) ==
    IF ~IsoShape(s) THEN [raised |-> TRUE, value |-> None]
    ELSE LET y   == StrToNat(SubSeq(s, 1, 4))
             mo  == StrToNat(SubSeq(s, 6, 7))
             d   == StrToNat(SubSeq(s, 9, 10))
             h   == StrToNat(SubSeq(s, 12, 13))
             mi  == StrToNat(SubSeq(s, 15, 16))
             sec == StrToNat(SubSeq(s, 18, 19))
             us  == StrToNat(SubSeq(s, 21, 26))
             off == StrToNat(SubSeq(s, 28, 29)) * 60 + StrToNat(SubSeq(s, 31, 32))
             sgn == IF Ch(s, 27) = "-" THEN 0 - 1 ELSE 1
         IN  IF /\ y \in 1..9999
                /\ mo \in 1..12
                /\ d \in 1..DaysInMonth(y, mo)
                /\ h \in 0..23
                /\ mi \in 0..59
                /\ sec \in 0..59
                /\ off < 24 * 60
             THEN [raised |-> FALSE,
                   value  |-> [year |-> y, month |-> mo, day |-> d, hour |-> h,
                               minute |-> mi, second |-> sec, microsecond |-> us,
                               utcoffset |-> sgn * off]]
             ELSE [raised |-> TRUE, value |-> None]

\* '%04d' / '%02d' / '{:03d}': zero-padded to at least w digits
RECURSIVE ZeroPad(_, _)
ZeroPad(str, w) == IF Len(str) >= w THEN str ELSE ZeroPad("0" \o str, w)

\* date_to_str(date_obj): strftime('%Y%m%d-%H%M%S'); date_to_str(None) raises
date_to_str(date_obj) ==
    IF date_obj = None THEN [raised |-> TRUE, value |-> None]
    ELSE [raised |-> FALSE,
          value  |-> ZeroPad(ToString(date_obj.year), 4) \o ZeroPad(ToString(date_obj.month), 2)
                     \o ZeroPad(ToString(date_obj.day), 2) \o "-"
                     \o ZeroPad(ToString(date_obj.hour), 2)
                     \o ZeroPad(ToString(date_obj.minute), 2)
                     \o ZeroPad(ToString(date_obj.second), 2)]

(***************************************************************************)
(* p1.finditer over exiftool's output                                      *)
(***************************************************************************)
\* ^ under re.MULTILINE
LineStart(t, i) == i = 1 \/ (i >= 2 /\ i <= Len(t) + 1 /\ Ch(t, i - 1) = "\n")

\* the first ':' at or after i (Len(t) + 1 when there is none)
RECURSIVE ColonFrom(_, _)
ColonFrom(t, i) == IF i > Len(t) \/ Ch(t, i) = ":" THEN i ELSE ColonFrom(t, i + 1)

\* p1 tried at position s: ([^:]+) runs to the first ':', \s+ takes all the whitespace,
\* then the date, the optional fraction, the optional offset and the optional Z
P1At(t, s) ==
    LET c == ColonFrom(t, s)
        w == SpaceRunEnd(t, c + 1)
        v == w + 1
        f == FracEnd(t, v + BaseLen)
        o == IF OffsetAt(t, f) THEN f + OffsetLen ELSE f
        z == IF LitAt(t, o, "Z") THEN o + 1 ELSE o
    IN  IF /\ LineStart(t, s)
           /\ c > s
           /\ c <= Len(t)
           /\ w > c
           /\ BaseAt(t, v, ":")
        THEN [matched |-> TRUE, label |-> SubSeq(t, s, c - 1),
              date_str |-> SubSeq(t, v, z - 1), end |-> z]
        ELSE [matched |-> FALSE, label |-> "", date_str |-> "", end |-> s]

\* the next match of p1 at or after position i
RECURSIVE P1Search(_, _)
P1Search(t, i) ==
    IF i > Len(t) THEN [matched |-> FALSE, label |-> "", date_str |-> "", end |-> i]
    ELSE IF P1At(t, i).matched THEN P1At(t, i)
    ELSE P1Search(t, i + 1)

fields_priority ==
    << "Date/Time Original", "Creation Date", "Media Create Date", "Track Create Date",
       "Create Date", "Date Created", "Modify Date", "File Modification Date/Time" >>

\* date_dict[label] = date_obj
DictSet(d, k, v) == [x \in (DOMAIN d) \cup {k} |-> IF x = k THEN v ELSE d[x]]

\* the keys in insertion order: a key set again keeps its place
KeysSet(keys, k) == IF \E i \in 1..Len(keys) : keys[i] = k THEN keys ELSE Append(keys, k)

\* for field in fields_priority: if field in date_dict: return date_dict[field]
RECURSIVE FirstField(_, _)
FirstField(d, i) ==
    IF i > Len(fields_priority) THEN None
    ELSE IF fields_priority[i] \in DOMAIN d THEN d[fields_priority[i]]
    ELSE FirstField(d, i + 1)

\* the first key of date_dict, in insertion order, that is a priority field
RECURSIVE FirstKey(_, _, _)
FirstKey(d, keys, i) ==
    IF i > Len(keys) THEN None
    ELSE IF \E j \in 1..Len(fields_priority) : fields_priority[j] = keys[i] THEN d[keys[i]]
    ELSE FirstKey(d, keys, i + 1)

ChooseDate_InsertionOrder(d, keys) == IF DOMAIN d = {} THEN None ELSE FirstKey(d, keys, 1)

\* get_photo_taken_date, given parse_exif_data's date_dict and its key order
ChooseDate(d, keys) == IF DOMAIN d = {} THEN None ELSE FirstField(d, 1)

(***************************************************************************)
(* SpecNorm: to_isoformat_with_microseconds applied to one argument        *)
(***************************************************************************)
MaxFracDigits == 7

FracDigitString == "2976543210"

LeadParts == {"", " "}
DateParts == {"2024:04:01", "2024-03-31", "2024/04/01", "2024:04-01", "24:04:01",
              "0000:00:00", "2024:02:30"}
SepParts  == {" ", "T"}
TimeParts == {"05:36:42", "14:38"}
FracParts == {""} \cup {"." \o SubSeq(FracDigitString, 1, k) : k \in 1..MaxFracDigits}
TzParts   == {"", "Z", "+02:00", "-08:00"}
\* what may follow without being read as more of the fraction or as the offset
TailParts(frac, tz) ==
    {"", " ", ".", "x", "z", "+2:00"} \cup (IF tz # "" THEN {"Z", "7", ".5"} ELSE {})

NormInputs ==
    { [lead |-> l, date |-> d, sep |-> s, time |-> t, frac |-> f, tz |-> z, tail |-> x] :
        l \in LeadParts, d \in DateParts, s \in SepParts, t \in TimeParts,
        f \in FracParts, z \in TzParts, x \in {"", " ", ".", "x", "z", "+2:00", "Z", "7", ".5"} }

Assemble(p) == p.lead \o p.date \o p.sep \o p.time \o p.frac \o p.tz \o p.tail

NoBatch ==
    /\ pc = "off"
    /\ disk = <<>>
    /\ dry_run = FALSE
    /\ walk = <<>>
    /\ filepath_date_dict = <<>>
    /\ file_cntr = 0
    /\ log = <<>>
    /\ failed = {}
    /\ disk0 = <<>>
    /\ shadow = <<>>
    /\ prev_real_done = FALSE

NoExif ==
    /\ e_pc = "off"
    /\ e_lines = <<>>
    /\ output_utf = ""
    /\ e_pos = 1
    /\ e_seen = <<>>
    /\ date_dict = <<>>
    /\ dict_keys = <<>>
    /\ e_result = None

NoMove ==
    /\ m_pc = "off"
    /\ m_disk = <<>>
    /\ m_dry = FALSE
    /\ filepath_list = <<>>
    /\ m_log = <<>>

NoNorm ==
    /\ n_pc = "off"
    /\ n_parts = <<>>
    /\ n_in = ""
    /\ n_out = ""

InitNorm ==
    /\ n_pc = "input"
    /\ n_parts \in {p \in NormInputs : p.tail \in TailParts(p.frac, p.tz)}
    /\ n_in = Assemble(n_parts)
    /\ n_out = ""
    /\ NoExif
    /\ NoBatch
    /\ NoMove

\* the call returns
NormReturn ==
    /\ n_pc = "input"
    /\ ~to_isoformat_with_microseconds(n_in).raised
    /\ n_pc' = "returned"
    /\ n_out' = to_isoformat_with_microseconds(n_in).value
    /\ UNCHANGED <<n_parts, n_in, exifVars, batchVars, moveVars>>

\* the call raises ValueError("Invalid date format")
NormRaise ==
    /\ n_pc = "input"
    /\ to_isoformat_with_microseconds(n_in).raised
    /\ n_pc' = "raised"
    /\ UNCHANGED <<n_parts, n_in, n_out, exifVars, batchVars, moveVars>>

\* the caller parses what was returned (parse_exif_data, lines 73-75)
NormParsed ==
    /\ n_pc = "returned"
    /\ ~fromisoformat(n_out).raised
    /\ n_pc' = "parsed"
    /\ UNCHANGED <<n_parts, n_in, n_out, exifVars, batchVars, moveVars>>

\* fromisoformat raises ValueError and the caller drops the value (lines 76-77)
NormDropped ==
    /\ n_pc = "returned"
    /\ fromisoformat(n_out).raised
    /\ n_pc' = "dropped"
    /\ UNCHANGED <<n_parts, n_in, n_out, exifVars, batchVars, moveVars>>

NextNorm == NormReturn \/ NormRaise \/ NormParsed \/ NormDropped

SpecNorm == InitNorm /\ [][NextNorm]_vars

(***************************************************************************)
(* SpecExif: parse_exif_data and get_photo_taken_date on one exiftool dump *)
(***************************************************************************)
MaxLines == 2

ExifLabels ==
    {fields_priority[i] : i \in 1..Len(fields_priority)} \cup {"Profile Date Time"}

ExifValues ==
    {"2024:04:01 05:36:42+02:00", "2024:03:31 14:38:15.29Z", "0000:00:00 00:00:00"}

LinePool ==
    {[label |-> l, value |-> v] : l \in ExifLabels, v \in ExifValues}
        \cup {[label |-> "File Name", value |-> "IMG_0001.jpg"]}

\* exiftool prints 'Tag Name    : value', one tag a line
LineText(ln) == ln.label \o "   : " \o ln.value \o "\n"

RECURSIVE JoinLines(_)
JoinLines(lines) ==
    IF Len(lines) = 0 THEN "" ELSE LineText(Head(lines)) \o JoinLines(Tail(lines))

InitExif ==
    /\ e_pc = "scan"
    /\ e_lines \in UNION {[1..n -> LinePool] : n \in 0..MaxLines}
    /\ output_utf = JoinLines(e_lines)
    /\ e_pos = 1
    /\ e_seen = <<>>
    /\ date_dict = <<>>
    /\ dict_keys = <<>>
    /\ e_result = None
    /\ NoNorm
    /\ NoBatch
    /\ NoMove

\* the loop body without the try/except around fromisoformat
ExifLoopBody_NoExcept(st, m) ==
    LET normalized_date_str == to_isoformat_with_microseconds(m.date_str)
        date_obj == fromisoformat(normalized_date_str.value)
    IN  IF normalized_date_str.raised \/ date_obj.raised
        THEN [st EXCEPT !.pc = "raised"]
        ELSE [st EXCEPT !.dict = DictSet(st.dict, Strip(m.label), date_obj.value),
                        !.keys = KeysSet(st.keys, Strip(m.label))]

\* the body of 'for m in p1.finditer(output_utf)', lines 70-78, on the loop's state:
\* to_isoformat_with_microseconds is called outside the try, fromisoformat inside it
ExifLoopBody(st, m) ==
    LET normalized_date_str == to_isoformat_with_microseconds(m.date_str)
        date_obj == fromisoformat(normalized_date_str.value)
    IN  IF normalized_date_str.raised
        THEN [st EXCEPT !.pc = "raised"]
        ELSE IF date_obj.raised
        THEN st
        ELSE [st EXCEPT !.dict = DictSet(st.dict, Strip(m.label), date_obj.value),
                        !.keys = KeysSet(st.keys, Strip(m.label))]

\* one iteration of the loop over p1's matches
ExifIterate ==
    /\ e_pc = "scan"
    /\ \E m \in {P1Search(output_utf, e_pos)} :
        /\ m.matched
        /\ \E st \in {ExifLoopBody([pc |-> "scan", dict |-> date_dict, keys |-> dict_keys], m)} :
            /\ e_pc' = st.pc
            /\ date_dict' = st.dict
            /\ dict_keys' = st.keys
            /\ e_pos' = m.end
            /\ e_seen' = Append(e_seen, [label |-> m.label, date_str |-> m.date_str])
    /\ UNCHANGED <<e_lines, output_utf, e_result, normVars, batchVars,
                   moveVars>>

\* no further match: parse_exif_data returns date_dict
ExifReturn ==
    /\ e_pc = "scan"
    /\ ~P1Search(output_utf, e_pos).matched
    /\ e_pc' = "parsed"
    /\ UNCHANGED <<e_lines, output_utf, e_pos, e_seen, date_dict, dict_keys, e_result,
                   normVars, batchVars,
                   moveVars>>

\* get_photo_taken_date picks from the returned date_dict
ExifResolve ==
    /\ e_pc = "parsed"
    /\ e_result' = ChooseDate(date_dict, dict_keys)
    /\ e_pc' = "resolved"
    /\ UNCHANGED <<e_lines, output_utf, e_pos, e_seen, date_dict, dict_keys,
                   normVars, batchVars,
                   moveVars>>

NextExif == ExifIterate \/ ExifReturn \/ ExifResolve

SpecExif == InitExif /\ [][NextExif]_vars

(***************************************************************************)
(* Properties of the normalizer, the scan and the resolver                 *)
(***************************************************************************)
\* the inputs of SpecNorm the call accepts, told from how they were put together
ExpectedAccepted(p) ==
    /\ p.date \in {"2024:04:01", "2024-03-31", "0000:00:00", "2024:02:30"}
    /\ p.sep = " "
    /\ p.time = "05:36:42"

ExpectedDate(p) ==
    IF p.date = "2024:04:01" THEN "2024-04-01"
    ELSE IF p.date = "0000:00:00" THEN "0000-00-00"
    ELSE IF p.date = "2024:02:30" THEN "2024-02-30"
    ELSE p.date

\* the fraction's digits, right-padded with zeros and cut to 6
ExpectedMicro(p) ==
    LET digits == SubSeq(p.frac, 2, Len(p.frac))
    IN  IF Len(digits) >= 6 THEN SubSeq(digits, 1, 6)
        ELSE digits \o SubSeq("000000", 1, 6 - Len(digits))

ExpectedOffset(p) == IF p.tz \in {"", "Z"} THEN "+00:00" ELSE p.tz

\* C8: every accepted input is returned as 'YYYY-MM-DD HH:MM:SS.ffffff(+|-)HH:MM': the
\* fraction is the input's digits padded with zeros and cut to 6 (000000 when absent),
\* the offset is +00:00 for 'Z' or no timezone and the input's own offset otherwise.
C8_CanonicalOutput ==
    n_pc = "returned" =>
        /\ IsoShape(n_out)
        /\ n_out = ExpectedDate(n_parts) \o " " \o n_parts.time \o "."
                   \o ExpectedMicro(n_parts) \o ExpectedOffset(n_parts)

C8_Witness ==
    /\ n_pc = "returned"
    /\ n_parts.date = "2024:04:01"
    /\ Len(n_parts.frac) > 7
    /\ n_parts.tz = "-08:00"
    /\ n_out = "2024-04-01 05:36:42.297654-08:00"

\* the values of ExifValues that are dates, and the datetime each stands for
ParsableValues == {"2024:04:01 05:36:42+02:00", "2024:03:31 14:38:15.29Z"}

ExpectedDatetime(v) ==
    IF v = "2024:04:01 05:36:42+02:00"
    THEN [year |-> 2024, month |-> 4, day |-> 1, hour |-> 5, minute |-> 36, second |-> 42,
          microsecond |-> 0, utcoffset |-> 120]
    ELSE [year |-> 2024, month |-> 3, day |-> 31, hour |-> 14, minute |-> 38, second |-> 15,
          microsecond |-> 290000, utcoffset |-> 0]

IsLastParsable(i) ==
    /\ e_lines[i].value \in ParsableValues
    /\ \A j \in (i + 1)..Len(e_lines) :
        ~(e_lines[j].label = e_lines[i].label /\ e_lines[j].value \in ParsableValues)

\* C9: parse_exif_data never raises on a candidate whose value does not parse; it drops
\* that candidate alone, and every candidate line that parses is in the returned mapping
\* (under its label, with the value of the last such line of that label).
C9_BadCandidateDroppedAlone ==
    /\ e_pc # "raised"
    /\ e_pc \in {"parsed", "resolved"} =>
        /\ \A i \in 1..Len(e_lines) :
            IsLastParsable(i) =>
                /\ e_lines[i].label \in DOMAIN date_dict
                /\ date_dict[e_lines[i].label] = ExpectedDatetime(e_lines[i].value)
        /\ \A k \in DOMAIN date_dict :
            \E i \in 1..Len(e_lines) : e_lines[i].label = k /\ IsLastParsable(i)

C9_Witness ==
    /\ e_pc = "parsed"
    /\ Len(e_lines) = 2
    /\ e_lines[1].value = "0000:00:00 00:00:00"
    /\ e_lines[2].value = "2024:03:31 14:38:15.29Z"
    /\ Len(e_seen) = 2
    /\ DOMAIN date_dict = {e_lines[2].label}

\* C7: get_photo_taken_date returns the timestamp of the first label of fields_priority
\* that is in the set, whatever the order of insertion, and None when no priority label
\* is in it, unlisted labels notwithstanding.
C7_PriorityOrderHonoured ==
    e_pc = "resolved" =>
        LET present == {i \in 1..Len(fields_priority) : fields_priority[i] \in DOMAIN date_dict}
        IN  IF present = {}
            THEN e_result = None
            ELSE \E i \in present :
                    /\ \A j \in present : i <= j
                    /\ e_result = date_dict[fields_priority[i]]

C7_Witness ==
    /\ e_pc = "resolved"
    /\ dict_keys = <<"Modify Date", "Date/Time Original">>
    /\ date_dict["Modify Date"] # date_dict["Date/Time Original"]
    /\ e_result = date_dict["Date/Time Original"]

(***************************************************************************)
(* Paths: os.path.dirname, os.path.join, os.path.splitext, str.lower       *)
(***************************************************************************)
\* the last position <= i of character c in s (0 when there is none)
RECURSIVE LastIndexOf(_, _, _)
LastIndexOf(s, c, i) == IF i = 0 \/ Ch(s, i) = c THEN i ELSE LastIndexOf(s, c, i - 1)

\* .replace('\\', '/'): a string without a backslash is returned as it is
RECURSIVE ReplaceBackslash(_)
ReplaceBackslash(s) ==
    IF \A i \in 1..Len(s) : Ch(s, i) # "\\" THEN s
    ELSE (IF Ch(s, 1) = "\\" THEN "/" ELSE Ch(s, 1)) \o ReplaceBackslash(SubSeq(s, 2, Len(s)))

RECURSIVE RStripSlash(_)
RStripSlash(s) ==
    IF Len(s) > 0 /\ Ch(s, Len(s)) = "/" THEN RStripSlash(SubSeq(s, 1, Len(s) - 1)) ELSE s

\* os.path.dirname(p): up to the last '/', trailing slashes dropped unless it is all slashes
dirname(p) ==
    LET head == SubSeq(p, 1, LastIndexOf(p, "/", Len(p)))
    IN  IF RStripSlash(head) = "" THEN head ELSE RStripSlash(head)

\* os.path.join(a, b)
path_join(a, b) ==
    IF LitAt(b, 1, "/") THEN b
    ELSE IF a = "" \/ Ch(a, Len(a)) = "/" THEN a \o b
    ELSE a \o "/" \o b

\* os.path.splitext(p)[1]: from the last '.' of the last component, unless only dots precede it
splitext(p) ==
    LET sep == LastIndexOf(p, "/", Len(p))
        dot == LastIndexOf(p, ".", Len(p))
    IN  IF dot > sep /\ (\E j \in (sep + 1)..(dot - 1) : Ch(p, j) # ".")
        THEN SubSeq(p, dot, Len(p))
        ELSE ""

UpperCase == "ABCDEFGHIJKLMNOPQRSTUVWXYZ"
LowerCase == "abcdefghijklmnopqrstuvwxyz"

UpperLetters == {Ch(UpperCase, i) : i \in 1..Len(UpperCase)}

LowerCh(c) ==
    IF c \in UpperLetters
    THEN Ch(LowerCase, CHOOSE i \in 1..Len(UpperCase) : Ch(UpperCase, i) = c)
    ELSE c

\* str.lower(): a string without an upper-case letter is returned as it is
RECURSIVE Lower(_)
Lower(s) ==
    IF \A i \in 1..Len(s) : Ch(s, i) \notin UpperLetters THEN s
    ELSE LowerCh(Ch(s, 1)) \o Lower(SubSeq(s, 2, Len(s)))

\* str.endswith(suffix)
EndsWith(s, suffix) ==
    Len(suffix) <= Len(s) /\ SubSeq(s, Len(s) - Len(suffix) + 1, Len(s)) = suffix

SupportedSuffixes == <<".heic", ".mov", ".jpeg", ".jpg", ".mp4", ".png", ".webp">>

\* f.lower().endswith(('.heic', '.mov', '.jpeg', '.jpg', '.mp4', '.png', '.webp'))
IsSupported(f) ==
    \E lowered \in {Lower(f)} :
        \E i \in 1..Len(SupportedSuffixes) : EndsWith(lowered, SupportedSuffixes[i])

(***************************************************************************)
(* The destination of one file: the loop of lines 115-127, the assert      *)
(***************************************************************************)
\* os.path.exists(p)
Exists(d, p) == p \in DOMAIN d

CounterWidth == 3

\* os.path.join(dirname(filepath), f'{date_str}-{cntr:03d}').replace('\\', '/')
\*     + os.path.splitext(filepath)[1]
Candidate(filepath, date_str, cntr) ==
    ReplaceBackslash(path_join(dirname(filepath),
                               date_str \o "-" \o ZeroPad(ToString(cntr), CounterWidth)))
        \o splitext(filepath)

\* the loop without 'if dst_filepath == src_filepath: break'
RECURSIVE FindDst_NoSelfBreak(_, _, _, _)
FindDst_NoSelfBreak(d, filepath, date_str, cntr) ==
    LET dst_filepath == Candidate(filepath, date_str, cntr)
    IN  IF ~Exists(d, dst_filepath) THEN dst_filepath
        ELSE FindDst_NoSelfBreak(d, filepath, date_str, cntr + 1)

\* while True: ... if not exists(dst): break; if dst == src: break; cntr += 1
RECURSIVE FindDst(_, _, _, _)
FindDst(d, filepath, date_str, cntr) ==
    LET dst_filepath == Candidate(filepath, date_str, cntr)
    IN  IF ~Exists(d, dst_filepath) THEN dst_filepath
        ELSE IF dst_filepath = filepath THEN dst_filepath
        ELSE FindDst(d, filepath, date_str, cntr + 1)

\* the first candidate taken unseen, and no assert
PlanStep_NoCheck(d, filepath, date_str) ==
    [dst |-> Candidate(filepath, date_str, 0), assert_ok |-> TRUE]

\* lines 114-140: the destination, and whether 'assert not os.path.exists(dst_filepath)'
\* holds where it is reached
PlanStep(d, filepath, date_str) ==
    LET dst == FindDst(d, filepath, date_str, 0)
    IN  [dst |-> dst, assert_ok |-> (dst = filepath \/ ~Exists(d, dst))]

\* os.rename(src, dst): dst names what src named; a file that was at dst is replaced
os_rename(d, src, dst) ==
    [p \in ((DOMAIN d) \ {src}) \cup {dst} |-> IF p = dst THEN d[src] ELSE d[p]]

(***************************************************************************)
(* The first loop: one file's date string                                  *)
(***************************************************************************)
\* date_str = None
NoneStr == "None"

\* lines 89-96: date_to_str(get_photo_taken_date(filepath)) under the bare except;
\* meta is what get_photo_taken_date does for the file: a datetime, None, or an exception
ResolveDateStr(meta) ==
    IF meta.outcome = "raise" THEN NoneStr
    ELSE IF date_to_str(meta.date).raised THEN NoneStr
    ELSE date_to_str(meta.date).value

\* the insertion without 'if date_str is not None'
PlanAdd_Always(plan, filepath, date_str) ==
    Append(plan, [filepath |-> filepath, date_str |-> date_str])

\* lines 97-98: if date_str is not None: filepath_date_dict[filepath] = date_str
PlanAdd(plan, filepath, date_str) ==
    IF date_str # NoneStr
    THEN Append(plan, [filepath |-> filepath, date_str |-> date_str])
    ELSE plan

(***************************************************************************)
(* Spec: parse_and_rename_images, batch after batch, over one tree         *)
(***************************************************************************)
MaxFiles == 3

\* what get_photo_taken_date returns for three dumps
DateOf(raw) == fromisoformat(to_isoformat_with_microseconds(raw).value).value

Taken(raw) == [outcome |-> "date", date |-> DateOf(raw)]
NoField    == [outcome |-> "none", date |-> None]
Raises     == [outcome |-> "raise", date |-> None]

T1  == Taken("2024:04:01 05:36:42+02:00")
T1b == Taken("2024:04:01 05:36:42.29Z")
T2  == Taken("2024:04:01 05:36:43")

\* the entries a tree is drawn from: files with what their metadata resolves to, and
\* directories ("dir")
InitPool ==
    {[path |-> "r/20240401-053642-000.jpg", kind |-> "file", meta |-> m] : m \in {T1, T2}}
    \cup {[path |-> "r/20240401-053642-000.jpg", kind |-> "dir", meta |-> NoField]}
    \cup {[path |-> "r/20240401-053642-001.jpg", kind |-> "file", meta |-> T1]}
    \cup {[path |-> "r/IMG_1.jpg", kind |-> "file", meta |-> m] : m \in {T1, Raises}}
    \cup {[path |-> "r/IMG_2.jpg", kind |-> "file", meta |-> m] : m \in {T1b, NoField}}
    \cup {[path |-> "r/IMG_3.PNG", kind |-> "file", meta |-> T1]}
    \cup {[path |-> "r/notes.txt", kind |-> "file", meta |-> NoField]}
    \cup {[path |-> "r/s/IMG_1.jpg", kind |-> "file", meta |-> T1]}

InitTrees ==
    {S \in SUBSET InitPool :
        /\ Cardinality(S) <= MaxFiles
        /\ \A a, b \in S : a.path = b.path => a = b}

\* a tree as the disk: each path with what is there; orig tells the files apart
MakeDisk(S) ==
    [p \in {e.path : e \in S} |->
        LET e == CHOOSE x \in S : x.path = p
        IN  [kind |-> e.kind, orig |-> p, meta |-> e.meta]]

Files(d) == {p \in DOMAIN d : d[p].kind = "file"}

\* the directories of the tree, in the order os.walk(dirpath) visits them top-down
WalkDirs == <<"r", "r/s">>

\* the orders in which the file system may list the files of a set
RECURSIVE ListOrders(_)
ListOrders(S) ==
    IF S = {} THEN {<<>>}
    ELSE UNION {{<<x>> \o o : o \in ListOrders(S \ {x})} : x \in S}

\* os.walk(dirpath): the files of a directory together, in the order the file system lists
\* them, directory after directory
RECURSIVE WalkFrom(_, _)
WalkFrom(d, n) ==
    IF n > Len(WalkDirs) THEN {<<>>}
    ELSE {a \o b : a \in ListOrders({p \in Files(d) : dirname(p) = WalkDirs[n]}),
                   b \in WalkFrom(d, n + 1)}

WalkOrders(d) == WalkFrom(d, 1)

\* a function that renames each file as soon as its date is resolved
PcAfter_PerFile(w, plan, cntr) ==
    IF cntr < Len(plan) THEN "rename" ELSE IF Len(w) > 0 THEN "parse" ELSE "done"

\* where the function is after a step: in the first loop, in the second, or returned
PcAfter(w, plan, cntr) ==
    IF Len(w) > 0 THEN "parse" ELSE IF cntr < Len(plan) THEN "rename" ELSE "done"

Init ==
    /\ pc = "idle"
    /\ disk \in {MakeDisk(S) : S \in InitTrees}
    /\ dry_run = FALSE
    /\ walk = <<>>
    /\ filepath_date_dict = <<>>
    /\ file_cntr = 0
    /\ log = <<>>
    /\ failed = {}
    /\ disk0 = disk
    /\ shadow = [disk |-> disk, pairs |-> <<>>]
    /\ prev_real_done = FALSE
    /\ NoNorm
    /\ NoExif
    /\ NoMove

\* parse_and_rename_images(dirpath, dry_run) is called: os.walk lists the tree
Start ==
    /\ pc \in {"idle", "done", "aborted", "assertion"}
    /\ \E dry \in BOOLEAN, order \in WalkOrders(disk) :
        /\ dry_run' = dry
        /\ walk' = order
        /\ pc' = PcAfter(order, <<>>, 0)
    /\ filepath_date_dict' = <<>>
    /\ file_cntr' = 0
    /\ log' = <<>>
    /\ failed' = {}
    /\ disk0' = disk
    /\ shadow' = [disk |-> disk, pairs |-> <<>>]
    /\ prev_real_done' = (pc = "done" /\ ~dry_run)
    /\ UNCHANGED <<disk, normVars, exifVars,
                   moveVars>>

\* first loop, a file the extension filter passes over (lines 85-86)
ParseSkip ==
    /\ pc = "parse"
    /\ ~IsSupported(Head(walk))
    /\ walk' = Tail(walk)
    /\ pc' = PcAfter(Tail(walk), filepath_date_dict, 0)
    /\ UNCHANGED <<disk, dry_run, filepath_date_dict, file_cntr, log, failed, disk0, shadow,
                   prev_real_done, normVars, exifVars,
                   moveVars>>

\* first loop, a supported file (lines 87-99)
ParseFile ==
    /\ pc = "parse"
    /\ IsSupported(Head(walk))
    /\ LET filepath == ReplaceBackslash(Head(walk))
           date_str == ResolveDateStr(disk[filepath].meta)
       IN  /\ filepath_date_dict' = PlanAdd(filepath_date_dict, filepath, date_str)
           /\ failed' = IF date_str = NoneStr THEN failed \cup {filepath} ELSE failed
           /\ pc' = PcAfter(Tail(walk), PlanAdd(filepath_date_dict, filepath, date_str), 0)
    /\ walk' = Tail(walk)
    /\ UNCHANGED <<disk, dry_run, file_cntr, log, disk0, shadow, prev_real_done,
                   normVars, exifVars,
                   moveVars>>

\* the entry the second loop is at
Current == filepath_date_dict[file_cntr + 1]

\* what the second loop prints for the entry, with the directory and the extension it
\* took from the path (lines 119, 121) and the paths that were on disk
LogLine(kind, step) ==
    [kind |-> kind, src |-> Current.filepath, dst |-> step.dst,
     date_str |-> Current.date_str, dir |-> dirname(Current.filepath),
     ext |-> splitext(Current.filepath), before |-> DOMAIN disk]

\* the same entry in the run that renames: its destination on that run's disk, executed
ShadowStep ==
    LET st == PlanStep(shadow.disk, Current.filepath, Current.date_str)
    IN  [disk  |-> IF st.dst = Current.filepath THEN shadow.disk
                   ELSE os_rename(shadow.disk, Current.filepath, st.dst),
         pairs |-> Append(shadow.pairs, <<Current.filepath, st.dst>>)]

\* second loop, the file is named as computed already (lines 129-139)
RenameGood ==
    /\ pc = "rename"
    /\ \E step \in {PlanStep(disk, Current.filepath, Current.date_str)} :
        /\ step.dst = Current.filepath
        /\ log' = Append(log, LogLine("GOOD", step))
    /\ file_cntr' = file_cntr + 1
    /\ pc' = PcAfter(<<>>, filepath_date_dict, file_cntr + 1)
    /\ shadow' = ShadowStep
    /\ UNCHANGED <<disk, dry_run, walk, filepath_date_dict, failed, disk0, prev_real_done,
                   normVars, exifVars,
                   moveVars>>

\* second loop, dry run: the rename is printed, not done (lines 140-152)
RenameDry ==
    /\ pc = "rename"
    /\ dry_run
    /\ \E step \in {PlanStep(disk, Current.filepath, Current.date_str)} :
        /\ step.dst # Current.filepath
        /\ IF step.assert_ok
           THEN /\ log' = Append(log, LogLine("RENAME", step))
                /\ file_cntr' = file_cntr + 1
                /\ pc' = PcAfter(<<>>, filepath_date_dict, file_cntr + 1)
                /\ shadow' = ShadowStep
           ELSE /\ pc' = "assertion"
                /\ UNCHANGED <<log, file_cntr, shadow>>
    /\ UNCHANGED <<disk, dry_run, walk, filepath_date_dict, failed, disk0, prev_real_done,
                   normVars, exifVars,
                   moveVars>>

\* second loop, the rename is printed and done (lines 140-152)
RenameMove ==
    /\ pc = "rename"
    /\ ~dry_run
    /\ \E step \in {PlanStep(disk, Current.filepath, Current.date_str)} :
        /\ step.dst # Current.filepath
        /\ IF step.assert_ok
           THEN /\ log' = Append(log, LogLine("RENAME", step))
                /\ disk' = os_rename(disk, Current.filepath, step.dst)
                /\ file_cntr' = file_cntr + 1
                /\ pc' = PcAfter(<<>>, filepath_date_dict, file_cntr + 1)
                /\ shadow' = ShadowStep
           ELSE /\ pc' = "assertion"
                /\ UNCHANGED <<log, disk, file_cntr, shadow>>
    /\ UNCHANGED <<dry_run, walk, filepath_date_dict, failed, disk0, prev_real_done,
                   normVars, exifVars,
                   moveVars>>

\* second loop, os.rename raises OSError: nothing catches it, the function is left
RenameRaises ==
    /\ pc = "rename"
    /\ ~dry_run
    /\ \E step \in {PlanStep(disk, Current.filepath, Current.date_str)} :
        /\ step.dst # Current.filepath
        /\ step.assert_ok
        /\ log' = Append(log, LogLine("RENAME", step))
    /\ pc' = "aborted"
    /\ UNCHANGED <<disk, dry_run, walk, filepath_date_dict, file_cntr, failed, disk0, shadow,
                   prev_real_done, normVars, exifVars,
                   moveVars>>

Next == Start \/ ParseSkip \/ ParseFile \/ RenameGood \/ RenameDry \/ RenameMove \/ RenameRaises

Spec == Init /\ [][Next]_vars

(***************************************************************************)
(* Properties of the batch                                                 *)
(***************************************************************************)
Renames == {i \in 1..Len(log) : log[i].kind = "RENAME"}

\* C1: every rename of a non-dry run goes from src to a different path that is not on
\* disk at that moment; nothing on disk is ever replaced, so the tree holds the same
\* files, as many as when the batch started.
C1_NoOverwrite ==
    /\ \A i \in Renames :
        /\ log[i].dst # log[i].src
        /\ log[i].dst \notin log[i].before
    /\ Cardinality(DOMAIN disk) = Cardinality(DOMAIN disk0)
    /\ {disk[p] : p \in DOMAIN disk} = {disk0[p] : p \in DOMAIN disk0}

C1_Witness ==
    /\ pc = "done"
    /\ ~dry_run
    /\ \E i \in Renames :
        /\ log[i].dst = "r/20240401-053642-001.jpg"
        /\ "r/20240401-053642-000.jpg" \in log[i].before
        /\ log[i].dst \in DOMAIN disk
        /\ log[i].src \notin DOMAIN disk

\* C2 as claimed: a non-dry run that follows a completed non-dry run renames nothing.
C2_SecondRunNoRenames ==
    (prev_real_done /\ ~dry_run) => Renames = {}

DateStrLen == 15

\* two destinations in one directory that differ in the 3-digit counter only
DifferOnlyInCounter(a, b, dir, date_str) ==
    LET prefix == Len(dir) + 1 + DateStrLen + 1
    IN  /\ a # b
        /\ Len(a) = Len(b)
        /\ SubSeq(a, 1, prefix) = dir \o "/" \o date_str \o "-"
        /\ SubSeq(b, 1, prefix) = SubSeq(a, 1, prefix)
        /\ DigitsAt(a, prefix + 1, 3)
        /\ DigitsAt(b, prefix + 1, 3)
        /\ SubSeq(a, prefix + 4, Len(a)) = SubSeq(b, prefix + 4, Len(b))

\* C3: in a non-dry run no two files are given the same destination; two files of one
\* directory with the same extension and the same formatted date get destinations that
\* differ in the counter only, and that is where both are when the batch is done.
C3_DistinctDestinations ==
    ~dry_run =>
        /\ \A i, j \in 1..Len(log) :
            i < j =>
                /\ log[i].dst # log[j].dst
                /\ ( /\ log[i].dir = log[j].dir
                     /\ log[i].ext = log[j].ext
                     /\ log[i].date_str = log[j].date_str )
                   => DifferOnlyInCounter(log[i].dst, log[j].dst, log[i].dir,
                                          log[i].date_str)
        /\ pc = "done" =>
            \A i \in 1..Len(log) :
                log[i].dst \in DOMAIN disk /\ disk[log[i].dst] = disk0[log[i].src]

C3_Witness ==
    /\ pc = "done"
    /\ ~dry_run
    /\ \E i, j \in Renames :
        /\ i < j
        /\ log[i].date_str = log[j].date_str
        /\ disk0[log[i].src].meta # disk0[log[j].src].meta
        /\ log[i].dst = "r/20240401-053642-000.jpg"
        /\ log[j].dst = "r/20240401-053642-001.jpg"

\* C4 as claimed: the (src, dst) pairs a dry run prints are the pairs the run that renames
\* goes through on the same tree, with the same dates, in the same order.
C4_DryRunSamePairs ==
    (dry_run /\ pc = "done") =>
        [i \in 1..Len(log) |-> <<log[i].src, log[i].dst>>] = shadow.pairs

\* C5 as claimed: when the function has been left, by return or by os.rename's error,
\* every file of the plan has been handled.
C5_FailureConfined ==
    pc \in {"done", "aborted"} => Len(log) = Len(filepath_date_dict)

\* the supported files of the tree the batch started on whose date does not resolve
Undated ==
    {p \in Files(disk0) : ~EndsWith(p, ".txt") /\ disk0[p].meta.outcome # "date"}

Dated ==
    {p \in Files(disk0) : ~EndsWith(p, ".txt") /\ disk0[p].meta.outcome = "date"}

Planned == {filepath_date_dict[i].filepath : i \in 1..Len(filepath_date_dict)}

\* C6: a file whose date does not resolve (an exception, or None) is reported, is not in
\* the rename plan and stays as it was at its path; every other supported file is in the
\* plan, and when a non-dry batch is done each of them is at its destination.
C6_FailedFileSkipped ==
    /\ failed \subseteq Undated
    /\ Planned \cap Undated = {}
    /\ \A p \in Undated : p \in DOMAIN disk /\ disk[p] = disk0[p]
    /\ pc \in {"rename", "done"} => (failed = Undated /\ Planned = Dated)
    /\ (pc = "done" /\ ~dry_run) =>
        /\ {log[i].src : i \in 1..Len(log)} = Dated
        /\ \A i \in 1..Len(log) :
            log[i].dst \in DOMAIN disk /\ disk[log[i].dst] = disk0[log[i].src]

C6_Witness ==
    /\ pc = "done"
    /\ ~dry_run
    /\ \E p, q \in failed :
        disk0[p].meta.outcome = "raise" /\ disk0[q].meta.outcome = "none"
    /\ Renames # {}

CounterText == <<"000", "001", "002", "003", "004", "005">>

\* the path of the k-th candidate for the file of a log line, written out
NthName(e, k) ==
    e.dir \o "/" \o e.date_str \o "-" \o CounterText[k + 1] \o e.ext

\* the file of log line e is at its own k-th candidate and every lower one was on disk
NoopCase(e, k) ==
    /\ e.src = NthName(e, k)
    /\ \A j \in 0..(k - 1) : NthName(e, j) \in e.before

\* C10: a file that is at the k-th candidate name of its own date, with every lower
\* candidate on disk, gets its own path as destination and is not renamed.
C10_NamerNoop ==
    \A i \in 1..Len(log) :
        \A k \in 0..(Len(CounterText) - 1) :
            NoopCase(log[i], k) => (log[i].kind = "GOOD" /\ log[i].dst = log[i].src)

C10_Witness ==
    /\ pc = "done"
    /\ \E i \in 1..Len(log) :
        /\ NoopCase(log[i], 1)
        /\ log[i].kind = "GOOD"
        /\ DOMAIN disk = log[i].before

\* C11 as claimed: when the date resolution of a file begins, every file whose date was
\* resolved before it has been through its rename step.
C11_PerFile ==
    (pc = "parse" /\ IsSupported(Head(walk))) => Len(log) = Len(filepath_date_dict)

\* C11: the batch runs in two phases, one file at a time in each: while dates are being
\* resolved nothing has been renamed, and the rename steps begin when every file of the
\* walk has been through date resolution; they follow the plan in its order.
C11_TwoPhase ==
    /\ pc = "parse" => (log = <<>> /\ file_cntr = 0 /\ disk = disk0 /\ walk # <<>>)
    /\ pc \in {"rename", "done", "aborted"} =>
        /\ walk = <<>>
        /\ Len(log) <= Len(filepath_date_dict)
        /\ \A i \in 1..Len(log) : log[i].src = filepath_date_dict[i].filepath
    /\ pc = "rename" => Len(log) = file_cntr

C11_Witness ==
    /\ pc = "rename"
    /\ ~dry_run
    /\ Len(filepath_date_dict) = 3
    /\ file_cntr = 1
    /\ disk # disk0

\* C12 as claimed: what to_isoformat_with_microseconds returns is never refused by
\* fromisoformat.
C12_ParseSucceeds ==
    n_pc # "dropped"

\* the dates of DateParts that are days of the calendar
CalendarDates == {"2024:04:01", "2024-03-31"}

\* C12: what to_isoformat_with_microseconds returns parses when the accepted input names
\* a day of the calendar (year 1..9999, month 1..12, a day of that month) with a time of
\* day and an offset in range; an accepted input that names no such day (0000:00:00,
\* 2024:02:30) is refused by fromisoformat, and the caller drops it.
C12_ParsesCalendarDates ==
    /\ n_pc = "parsed" => n_parts.date \in CalendarDates
    /\ n_pc = "dropped" => n_parts.date \notin CalendarDates
    /\ (n_pc = "returned" /\ n_parts.date \in CalendarDates) =>
        /\ ~fromisoformat(n_out).raised
        /\ fromisoformat(n_out).value.microsecond = StrToNat(ExpectedMicro(n_parts))

C12_Witness ==
    /\ n_pc = "parsed"
    /\ n_parts.date = "2024:04:01"
    /\ n_parts.frac = ".29"
    /\ n_parts.tz = "+02:00"
    /\ n_out = "2024-04-01 05:36:42.290000+02:00"

(***************************************************************************)
(* SpecMove: move_images over one file system                              *)
(***************************************************************************)
basefolder == "/mnt/c/Backup"

MoverSuffixes == <<".heic", ".mov", ".jpeg", ".jpg", ".mp4", ".png">>

\* f.lower().endswith(('.heic', '.mov', '.jpeg', '.jpg', '.mp4', '.png'))
IsMovable(f) ==
    \E lowered \in {Lower(f)} :
        \E i \in 1..Len(MoverSuffixes) : EndsWith(lowered, MoverSuffixes[i])

\* filepath.split('/')[-1]
LastComponent(filepath) ==
    SubSeq(filepath, LastIndexOf(filepath, "/", Len(filepath)) + 1, Len(filepath))

\* p = (20\d\d)(\d\d)(\d\d)-(\d\d)(\d\d)(\d\d)-(\d+) at position i
PAt(s, i) ==
    /\ LitAt(s, i, "20")
    /\ DigitsAt(s, i + 2, 6)
    /\ LitAt(s, i + 8, "-")
    /\ DigitsAt(s, i + 9, 6)
    /\ LitAt(s, i + 15, "-")
    /\ DigitsAt(s, i + 16, 1)

\* p.search(s): where the first match starts (0 when there is none)
RECURSIVE PSearch(_, _)
PSearch(s, i) ==
    IF i > Len(s) THEN 0 ELSE IF PAt(s, i) THEN i ELSE PSearch(s, i + 1)

\* m.group(1) .. m.group(7) of the match at i
PGroups(s, i) ==
    [year_str   |-> SubSeq(s, i, i + 3),
     month_str  |-> SubSeq(s, i + 4, i + 5),
     day_str    |-> SubSeq(s, i + 6, i + 7),
     hour_str   |-> SubSeq(s, i + 9, i + 10),
     minute_str |-> SubSeq(s, i + 11, i + 12),
     second_str |-> SubSeq(s, i + 13, i + 14),
     cntr_str   |-> SubSeq(s, i + 16, DigitRunEnd(s, i + 16))]

\* datetime.datetime(year, month, day, hour, minute, second): the ValueError or the fields
MakeDate(g) ==
    LET y   == StrToNat(g.year_str)
        mo  == StrToNat(g.month_str)
        d   == StrToNat(g.day_str)
        h   == StrToNat(g.hour_str)
        mi  == StrToNat(g.minute_str)
        sec == StrToNat(g.second_str)
    IN  IF mo \in 1..12 /\ d \in 1..DaysInMonth(y, mo) /\ h < 24 /\ mi < 60 /\ sec < 60
        THEN [raised |-> FALSE,
              value  |-> [year |-> y, month |-> mo, day |-> d, hour |-> h, minute |-> mi,
                          second |-> sec, microsecond |-> 0, utcoffset |-> 0]]
        ELSE [raised |-> TRUE, value |-> None]

\* os.path.isfile, os.path.isdir, os.path.exists: a directory is one that is on disk as
\* such or one that holds something
IsFile(d, p) == p \in DOMAIN d /\ d[p].kind = "file"

IsDir(d, p) ==
    \/ (p \in DOMAIN d /\ d[p].kind = "dir")
    \/ \E q \in DOMAIN d : LitAt(q, 1, p \o "/")

PathExists(d, p) == IsFile(d, p) \/ IsDir(d, p)

\* f'{os.path.splitext(filename)}': the tuple (root, ext) as str() prints it
SplitextStr(filename) ==
    LET ext == splitext(filename)
    IN  "('" \o SubSeq(filename, 1, Len(filename) - Len(ext)) \o "', '" \o ext \o "')"

\* lines 88-92
MoveCandidate(dst_folderpath, filedate, cntr, filename) ==
    dst_folderpath \o "/" \o date_to_str(filedate).value \o "-"
        \o ZeroPad(ToString(cntr), CounterWidth) \o "." \o SplitextStr(filename)

\* while True: ... if os.path.exists(dst_filepath): cntr += 1; continue; break
RECURSIVE MoveFindDst(_, _, _, _, _)
MoveFindDst(d, dst_folderpath, filedate, cntr, filename) ==
    LET dst_filepath == MoveCandidate(dst_folderpath, filedate, cntr, filename)
    IN  IF PathExists(d, dst_filepath)
        THEN MoveFindDst(d, dst_folderpath, filedate, cntr + 1, filename)
        ELSE dst_filepath

\* lines 53-100 for one file: whether datetime raises, whether the file is where it
\* belongs, its destination, and whether 'assert not os.path.exists(dst_filepath)' holds
MoveStep(d, filepath) ==
    LET filename == LastComponent(filepath)
        g        == PGroups(filename, PSearch(filename, 1))
        ideal    == basefolder \o "/Pictures_" \o g.year_str \o "/" \o g.month_str \o "_"
                    \o g.year_str \o "/" \o filename
        folder   == ReplaceBackslash(dirname(ideal))
    IN  IF MakeDate(g).raised
        THEN [raised |-> TRUE, good |-> FALSE, dst |-> ideal, folder |-> folder,
              assert_ok |-> TRUE]
        ELSE LET dst == IF filepath # ideal /\ IsFile(d, ideal)
                        THEN MoveFindDst(d, folder, MakeDate(g).value,
                                         StrToNat(g.cntr_str), filename)
                        ELSE ideal
             IN  [raised |-> FALSE, good |-> (filepath = ideal), dst |-> dst,
                  folder |-> folder, assert_ok |-> ~PathExists(d, dst)]

\* os.makedirs(dst_folderpath), shutil.move(src, dst) to a path that does not exist
makedirs(d, folder) ==
    IF IsDir(d, folder) THEN d
    ELSE [p \in DOMAIN d \cup {folder} |->
            IF p = folder THEN [kind |-> "dir", orig |-> folder] ELSE d[p]]

shutil_move(d, src, dst) ==
    [p \in ((DOMAIN d) \ {src}) \cup {dst} |-> IF p = dst THEN d[src] ELSE d[p]]

MaxMoveFiles == 3

IdealFolder == basefolder \o "/Pictures_2024/04_2024"

\* the entries a file system is drawn from
MovePool ==
    {[path |-> "in/20240401-053642-000.jpg", kind |-> "file"],
     [path |-> "in/a/20240401-053642-000.jpg", kind |-> "file"],
     [path |-> "in/20241301-000000-000.jpg", kind |-> "file"],
     [path |-> "in/IMG_1.jpg", kind |-> "file"],
     [path |-> IdealFolder \o "/20240401-053642-000.jpg", kind |-> "file"],
     [path |-> IdealFolder \o "/20240401-053642-000.jpg", kind |-> "dir"]}

MoveTrees ==
    {S \in SUBSET MovePool :
        /\ Cardinality(S) <= MaxMoveFiles
        /\ \A a, b \in S : a.path = b.path => a = b}

MakeMoveDisk(S) ==
    [p \in {e.path : e \in S} |->
        [kind |-> (CHOOSE x \in S : x.path = p).kind, orig |-> p]]

\* the directories that hold files, in the order os.walk visits them top-down, and the
\* directories move_images may be called on
MoveDirs == <<"in", "in/a", IdealFolder>>

MoveRoots == {"in", basefolder}

\* lines 36-48: the files under dirpath that the filter and p.search let through, directory
\* after directory, each directory's files in the order the file system lists them
RECURSIVE MoveWalkFrom(_, _, _)
MoveWalkFrom(d, dirpath, n) ==
    IF n > Len(MoveDirs) THEN {<<>>}
    ELSE LET here == IF MoveDirs[n] = dirpath \/ LitAt(MoveDirs[n], 1, dirpath \o "/")
                     THEN {f \in DOMAIN d :
                             /\ d[f].kind = "file"
                             /\ dirname(f) = MoveDirs[n]
                             /\ IsMovable(LastComponent(f))
                             /\ PSearch(LastComponent(f), 1) # 0}
                     ELSE {}
         IN  {a \o b : a \in ListOrders(here), b \in MoveWalkFrom(d, dirpath, n + 1)}

MovePcAfter(list) == IF Len(list) > 0 THEN "move" ELSE "done"

InitMove ==
    /\ m_pc = "idle"
    /\ m_disk \in {MakeMoveDisk(S) : S \in MoveTrees}
    /\ m_dry = FALSE
    /\ filepath_list = <<>>
    /\ m_log = <<>>
    /\ NoNorm
    /\ NoExif
    /\ NoBatch

\* move_images(dirpath, dry_run) is called: the first loop fills filepath_list
MoveStart ==
    /\ m_pc \in {"idle", "done", "assertion", "error"}
    /\ \E dry \in BOOLEAN, dirpath \in MoveRoots :
        \E list \in MoveWalkFrom(m_disk, dirpath, 1) :
            /\ m_dry' = dry
            /\ filepath_list' = list
            /\ m_pc' = MovePcAfter(list)
    /\ m_log' = <<>>
    /\ UNCHANGED <<m_disk, normVars, exifVars, batchVars>>

\* second loop, datetime.datetime(...) raises ValueError (lines 63-70)
MoveDateRaises ==
    /\ m_pc = "move"
    /\ MoveStep(m_disk, Head(filepath_list)).raised
    /\ m_pc' = "error"
    /\ UNCHANGED <<m_disk, m_dry, filepath_list, m_log, normVars, exifVars, batchVars>>

\* second loop, the file is where it belongs (lines 79-81)
MoveGood ==
    /\ m_pc = "move"
    /\ \E step \in {MoveStep(m_disk, Head(filepath_list))} :
        /\ ~step.raised
        /\ step.good
        /\ m_log' = Append(m_log, [kind |-> "GOOD", src |-> Head(filepath_list),
                                   dst |-> step.dst])
    /\ filepath_list' = Tail(filepath_list)
    /\ m_pc' = MovePcAfter(Tail(filepath_list))
    /\ UNCHANGED <<m_disk, m_dry, normVars, exifVars, batchVars>>

\* second loop, the assert of line 100 fails
MoveAssertFails ==
    /\ m_pc = "move"
    /\ \E step \in {MoveStep(m_disk, Head(filepath_list))} :
        /\ ~step.raised
        /\ ~step.good
        /\ ~step.assert_ok
    /\ m_pc' = "assertion"
    /\ UNCHANGED <<m_disk, m_dry, filepath_list, m_log, normVars, exifVars, batchVars>>

\* second loop, dry run: CREATE and MOVE are printed (lines 100-109)
MoveDry ==
    /\ m_pc = "move"
    /\ m_dry
    /\ \E step \in {MoveStep(m_disk, Head(filepath_list))} :
        /\ ~step.raised
        /\ ~step.good
        /\ step.assert_ok
        /\ m_log' = Append(m_log, [kind |-> "MOVE", src |-> Head(filepath_list),
                                   dst |-> step.dst])
    /\ filepath_list' = Tail(filepath_list)
    /\ m_pc' = MovePcAfter(Tail(filepath_list))
    /\ UNCHANGED <<m_disk, m_dry, normVars, exifVars, batchVars>>

\* second loop, the folder is made and the file is moved (lines 100-109)
MoveFile ==
    /\ m_pc = "move"
    /\ ~m_dry
    /\ \E step \in {MoveStep(m_disk, Head(filepath_list))} :
        /\ ~step.raised
        /\ ~step.good
        /\ step.assert_ok
        /\ m_log' = Append(m_log, [kind |-> "MOVE", src |-> Head(filepath_list),
                                   dst |-> step.dst])
        /\ m_disk' = shutil_move(makedirs(m_disk, step.folder), Head(filepath_list),
                                 step.dst)
    /\ filepath_list' = Tail(filepath_list)
    /\ m_pc' = MovePcAfter(Tail(filepath_list))
    /\ UNCHANGED <<m_dry, normVars, exifVars, batchVars>>

NextMove ==
    MoveStart \/ MoveDateRaises \/ MoveGood \/ MoveAssertFails \/ MoveDry \/ MoveFile

SpecMove == InitMove /\ [][NextMove]_vars

\* C13 as claimed: move_images is never left by the AssertionError of
\* 'assert not os.path.exists(dst_filepath)'.
C13_AssertNeverFails ==
    m_pc # "assertion"

====
